---- MODULE Spec2Model ----
\* FoodHub server (Hono edge function over a key-value store, Supabase Auth and
\* the Paystack REST API) together with the client code that calls it.
\*
\* Every request is handled by an async handler; each `await kv.get/kv.set`
\* is one step of the handler, so handlers of different requests interleave
\* at those points.  A request slot r carries the handler's position pc[r]
\* and its local variables loc[r].
\*
\* Amounts are whole naira.  Paystack holds amounts in kobo (naira * 100).
EXTENDS Integers, Sequences, FiniteSets, Bags, TLC

\* ---------------------------------------------------------------- bounds
MaxOrders == 1      \* orders that POST /orders may create
MaxRefs == 2        \* Paystack transactions that /payment/initialize may open
MaxReqs == 2        \* requests in flight at the same time
MaxUsers == 2       \* Supabase Auth users that may ever be created
MaxWithdrawals == 2 \* withdrawals a run may request
MaxClients == 1     \* browsers / API clients
RevenueCap == 1000  \* 'delivered' updates are sent while the caller's revenue is below

\* ------------------------------------------------------ program constants
CommissionPercent == 4          \* COMMISSION_RATE = 0.04
UiMinWithdrawal == 1000         \* handleWithdraw: amount < 1000 is refused
DocMinWithdrawal == 5000        \* documented minimum withdrawal
KoboPerNaira == 100             \* amount * 100 / transaction.amount / 100

UserIds == 1..MaxUsers
OrderIds == 1..MaxOrders
RefIds == 1..MaxRefs
Reqs == 1..MaxReqs
Clients == 1..MaxClients

\* Order totals a customer may be charged, and amounts a vendor may ask for.
Amounts == {1060, 5240}
WithdrawAmounts == {500, 1000, 5000}
AdminEmail == "flourisholuwatimilehin@gmail.com"
AdminPassword == "Thesameasyours1."
Emails == {AdminEmail, "vendor@example.com"}
Passwords == {AdminPassword, "secret1"}

\* kv.get of a missing key, a missing user
Null == [null |-> TRUE]

VARIABLES
    users,          \* Supabase Auth: user id -> user (email, password, user_metadata)
    nextUser,       \* number of users ever created
    vendor,         \* kv vendor:{vendorId}
    orders,         \* kv order:{orderId}
    nextOrder,      \* number of orders ever created
    wallet,         \* kv wallet:{vendorId}
    transactions,   \* kv transaction:{id}: the bag of records (ids are random)
    commissions,    \* kv commission:{id}: the bag of records
    earnings,       \* kv platform_earnings:{PLATFORM_OWNER_ID}
    withdrawals,    \* kv withdrawal:{id}: the bag of records
    paystack,       \* Paystack: reference -> transaction (metadata.orderId, amount in kobo, status)
    pc,             \* request slot -> position of its handler
    loc,            \* request slot -> the handler's local variables
    clients,        \* client -> its Supabase session and its localStorage foodhub_admin_user
    resp,           \* the last response sent by an endpoint that answers in one step
    display         \* client -> OrdersManagement's `orders` state: order id -> status shown

vars == <<users, nextUser, vendor, orders, nextOrder, wallet, transactions,
          commissions, earnings, withdrawals, paystack, pc, loc, clients, resp, display>>

\* ------------------------------------------------------------ pure helpers

\* Math.round(x / 100) for a non-negative integer x: halves round up.
RoundDiv100(x) == (x + 50) \div 100

\* Math.round(orderAmount * COMMISSION_RATE)
calculateCommission(orderAmount) == RoundDiv100(orderAmount * CommissionPercent)

\* `kv.get(wallet:{id}) || { walletBalance: 0, totalEarnings: 0, ... }`
DefaultWallet == [walletBalance |-> 0, totalEarnings |-> 0, totalWithdrawn |-> 0]

\* `kv.get(platform_earnings) || { totalEarnings: 0, totalOrders: 0, ... }`
DefaultEarnings == [totalEarnings |-> 0, totalOrders |-> 0]

OrDefault(v, d) == IF v = Null THEN d ELSE v

IdleLoc == [kind |-> "none", user |-> 0, orderId |-> 0, ref |-> 0, vendorId |-> 0,
            amount |-> 0, commission |-> 0, vendorAmount |-> 0,
            order |-> Null, wallet |-> Null, earn |-> Null, vend |-> Null,
            action |-> "none", viaUI |-> FALSE, status |-> "none", client |-> 0,
            code |-> 0]

NoResponse == [op |-> "none", client |-> 0, status |-> 0, data |-> {}]

Idle(r) == pc[r] = "idle"

\* The handler of slot r returns: the slot is free again.  The answer of a
\* PUT /orders/:orderId/status is awaited by its caller (updateOrderStatus):
\* the slot is held until the caller has taken the answer.
Finish(r) ==
    IF loc[r].kind = "status"
    THEN /\ pc' = [pc EXCEPT ![r] = "st_done"]
         /\ loc' = [loc EXCEPT ![r].code = 200]
    ELSE /\ pc' = [pc EXCEPT ![r] = "idle"]
         /\ loc' = [loc EXCEPT ![r] = IdleLoc]

Goto(r, label) == pc' = [pc EXCEPT ![r] = label]

Init ==
    /\ users = [u \in UserIds |-> Null]
    /\ nextUser = 0
    /\ vendor = [u \in UserIds |-> Null]
    /\ orders = [o \in OrderIds |-> Null]
    /\ nextOrder = 0
    /\ wallet = [u \in UserIds |-> Null]
    /\ transactions = EmptyBag
    /\ commissions = EmptyBag
    /\ earnings = Null
    /\ withdrawals = EmptyBag
    /\ paystack = [p \in RefIds |-> Null]
    /\ pc = [r \in Reqs |-> "idle"]
    /\ loc = [r \in Reqs |-> IdleLoc]
    /\ clients = [c \in Clients |-> [session |-> 0, adminUser |-> FALSE]]
    /\ resp = NoResponse
    /\ display = [c \in Clients |-> [o \in OrderIds |-> "absent"]]

AllIdle == \A r \in Reqs : Idle(r)

\* ------------------------------------------------- trackCommission (shared)
\* await kv.set(`commission:${id}`, commissionRecord)
TrackCommissionRecord(r) ==
    /\ pc[r] = "tc_set"
    /\ commissions' = commissions (+) SetToBag({[orderId |-> loc[r].orderId, vendorId |-> loc[r].vendorId,
            orderAmount |-> loc[r].amount, commissionAmount |-> loc[r].commission]})
    /\ Goto(r, "tc_get")
    /\ UNCHANGED <<display, clients, resp, users, nextUser, vendor, orders, nextOrder, wallet, transactions,
                   earnings, withdrawals, paystack, loc>>

\* currentEarnings = await kv.get(platform_earnings) || {...}
TrackCommissionRead(r) ==
    /\ pc[r] = "tc_get"
    /\ loc' = [loc EXCEPT ![r].earn = OrDefault(earnings, DefaultEarnings)]
    /\ Goto(r, "tc_put")
    /\ UNCHANGED <<display, clients, resp, users, nextUser, vendor, orders, nextOrder, wallet, transactions,
                   commissions, earnings, withdrawals, paystack>>

\* await kv.set(platform_earnings, updatedEarnings)
TrackCommissionWrite(r) ==
    /\ pc[r] = "tc_put"
    /\ earnings' = [totalEarnings |-> loc[r].earn.totalEarnings + loc[r].commission,
                    totalOrders |-> loc[r].earn.totalOrders + 1]
    /\ Goto(r, "uvs_get")
    /\ UNCHANGED <<display, clients, resp, users, nextUser, vendor, orders, nextOrder, wallet, transactions,
                   commissions, withdrawals, paystack, loc>>

\* ------------------------------------------------ updateVendorStats (shared)
\* vendor = await kv.get(`vendor:${vendorId}`); if (!vendor) return;
UpdateVendorStatsRead(r) ==
    /\ pc[r] = "uvs_get"
    /\ IF vendor[loc[r].vendorId] = Null
       THEN Finish(r)
       ELSE /\ loc' = [loc EXCEPT ![r].vend = vendor[loc[r].vendorId]]
            /\ Goto(r, "uvs_put")
    /\ UNCHANGED <<display, clients, resp, users, nextUser, vendor, orders, nextOrder, wallet, transactions,
                   commissions, earnings, withdrawals, paystack>>

\* The switch over `action` applied to the copy read before.
UpdatedVendor(v, action, amount) ==
    IF action = "newOrder" THEN [v EXCEPT !.totalOrders = @ + 1]
    ELSE IF action = "orderCompleted" THEN [v EXCEPT !.revenue = @ + amount]
    ELSE v

\* await kv.set(`vendor:${vendorId}`, updatedVendor)
UpdateVendorStatsWrite(r) ==
    /\ pc[r] = "uvs_put"
    /\ vendor' = [vendor EXCEPT ![loc[r].vendorId] =
                     UpdatedVendor(loc[r].vend, loc[r].action, loc[r].vendorAmount)]
    /\ Finish(r)
    /\ UNCHANGED <<display, clients, resp, users, nextUser, orders, nextOrder, wallet, transactions,
                   commissions, earnings, withdrawals, paystack>>

\* ------------------------------------------------------------- POST /orders
\* No authentication; the order is stored and its commission tracked at once.
PostOrders(r, vendorId, amount) ==
    /\ Idle(r)
    /\ nextOrder < MaxOrders
    /\ nextOrder' = nextOrder + 1
    /\ orders' = [orders EXCEPT ![nextOrder + 1] =
                     [vendorId |-> vendorId, amount |-> amount, status |-> "pending",
                      paymentStatus |-> "none", paymentReference |-> 0,
                      platformCommission |-> calculateCommission(amount),
                      commissionRate |-> CommissionPercent]]
    /\ loc' = [loc EXCEPT ![r] = [IdleLoc EXCEPT !.kind = "order",
                     !.orderId = nextOrder + 1, !.vendorId = vendorId,
                     !.amount = amount, !.commission = calculateCommission(amount),
                     !.action = "newOrder"]]
    /\ Goto(r, "tc_set")
    /\ UNCHANGED <<display, clients, resp, users, nextUser, vendor, wallet, transactions, commissions,
                   earnings, withdrawals, paystack>>

\* ------------------------------------------------- POST /payment/initialize
\* Paystack opens a transaction under a fresh reference `${orderId}_${Date.now()}`.
PaymentInitialize(r, orderId, amount) ==
    /\ Idle(r)
    /\ \E ref \in RefIds :
        /\ paystack[ref] = Null
        /\ \A q \in RefIds : q < ref => paystack[q] # Null
        /\ paystack' = [paystack EXCEPT ![ref] =
               [orderId |-> orderId, amount |-> amount * KoboPerNaira, status |-> "pending"]]
        /\ loc' = [loc EXCEPT ![r] = [IdleLoc EXCEPT !.kind = "init",
                         !.orderId = orderId, !.ref = ref]]
    /\ Goto(r, "init_get")
    /\ UNCHANGED <<display, clients, resp, users, nextUser, vendor, orders, nextOrder, wallet, transactions,
                   commissions, earnings, withdrawals>>

\* order = await kv.get(`order:${orderId}`); if (order) { ... }
PaymentInitializeRead(r) ==
    /\ pc[r] = "init_get"
    /\ IF orders[loc[r].orderId] = Null
       THEN Finish(r)
       ELSE /\ loc' = [loc EXCEPT ![r].order =
                   [orders[loc[r].orderId] EXCEPT !.paymentReference = loc[r].ref,
                                                  !.paymentStatus = "initialized"]]
            /\ Goto(r, "init_put")
    /\ UNCHANGED <<display, clients, resp, users, nextUser, vendor, orders, nextOrder, wallet, transactions,
                   commissions, earnings, withdrawals, paystack>>

\* await kv.set(`order:${orderId}`, order)
PaymentInitializeWrite(r) ==
    /\ pc[r] = "init_put"
    /\ orders' = [orders EXCEPT ![loc[r].orderId] = loc[r].order]
    /\ Finish(r)
    /\ UNCHANGED <<display, clients, resp, users, nextUser, vendor, nextOrder, wallet, transactions,
                   commissions, earnings, withdrawals, paystack>>

\* The customer completes the charge in the Paystack popup.
CustomerPays(ref) ==
    /\ paystack[ref] # Null
    /\ paystack[ref].status = "pending"
    /\ paystack' = [paystack EXCEPT ![ref].status = "success"]
    /\ UNCHANGED <<display, clients, resp, users, nextUser, vendor, orders, nextOrder, wallet, transactions,
                   commissions, earnings, withdrawals, pc, loc>>

\* ----------------------------------------------------- POST /payment/verify
\* totalAmount = transaction.amount / 100 (kobo to naira)
VerifyTotalAmount(kobo) == kobo \div KoboPerNaira

\* A commission that truncates instead of rounding (Math.floor for Math.round).
VerifyCommissionAmountFloor(totalAmount) == (totalAmount * CommissionPercent) \div 100

\* commissionAmount = Math.round(totalAmount * COMMISSION_RATE)
VerifyCommissionAmount(totalAmount) == RoundDiv100(totalAmount * CommissionPercent)

\* vendorAmount = totalAmount - commissionAmount
VerifyVendorAmount(totalAmount, commissionAmount) == totalAmount - commissionAmount

\* Paystack answers the verification of `reference`; anything but a successful
\* transaction ends the request with 400 and no effect.
PaymentVerify(r, ref) ==
    /\ Idle(r)
    /\ paystack[ref] # Null
    /\ paystack[ref].status = "success"
    /\ loc' = [loc EXCEPT ![r] = [IdleLoc EXCEPT !.kind = "verify", !.ref = ref,
                     !.orderId = paystack[ref].orderId,
                     !.amount = VerifyTotalAmount(paystack[ref].amount)]]
    /\ Goto(r, "ver_get")
    /\ UNCHANGED <<display, clients, resp, users, nextUser, vendor, orders, nextOrder, wallet, transactions,
                   commissions, earnings, withdrawals, paystack>>

\* order = await kv.get(`order:${orderId}`); 404 when missing;
\* "Prevent double-processing": return when order.paymentStatus === 'completed'.
PaymentVerifyRead(r) ==
    /\ pc[r] = "ver_get"
    /\ LET order == orders[loc[r].orderId]
           commission == VerifyCommissionAmount(loc[r].amount) IN
       IF order = Null \/ order.paymentStatus = "completed"
       THEN Finish(r)
       ELSE /\ loc' = [loc EXCEPT ![r].order = order,
                                  ![r].vendorId = order.vendorId,
                                  ![r].commission = commission,
                                  ![r].vendorAmount = VerifyVendorAmount(loc[r].amount, commission),
                                  ![r].action = "orderCompleted"]
            /\ Goto(r, "ver_txn")
    /\ UNCHANGED <<display, clients, resp, users, nextUser, vendor, orders, nextOrder, wallet, transactions,
                   commissions, earnings, withdrawals, paystack>>

\* await kv.set(`transaction:${transactionId}`, transactionRecord)
PaymentVerifyTransaction(r) ==
    /\ pc[r] = "ver_txn"
    /\ transactions' = transactions (+) SetToBag({[orderId |-> loc[r].orderId, vendorId |-> loc[r].vendorId,
            totalAmount |-> loc[r].amount, commissionAmount |-> loc[r].commission,
            vendorAmount |-> loc[r].vendorAmount, paymentReference |-> loc[r].ref]})
    /\ Goto(r, "ver_order")
    /\ UNCHANGED <<display, clients, resp, users, nextUser, vendor, orders, nextOrder, wallet, commissions,
                   earnings, withdrawals, paystack, loc>>

\* order.status = 'confirmed'; order.paymentStatus = 'completed'; ...; kv.set(order)
PaymentVerifyOrder(r) ==
    /\ pc[r] = "ver_order"
    /\ orders' = [orders EXCEPT ![loc[r].orderId] =
                     [loc[r].order EXCEPT !.status = "confirmed",
                                          !.paymentStatus = "completed",
                                          !.paymentReference = loc[r].ref]]
    /\ Goto(r, "ver_wget")
    /\ UNCHANGED <<display, clients, resp, users, nextUser, vendor, nextOrder, wallet, transactions, commissions,
                   earnings, withdrawals, paystack, loc>>

\* wallet = await kv.get(`wallet:${order.vendorId}`) || {...}
PaymentVerifyWalletRead(r) ==
    /\ pc[r] = "ver_wget"
    /\ loc' = [loc EXCEPT ![r].wallet = OrDefault(wallet[loc[r].vendorId], DefaultWallet)]
    /\ Goto(r, "ver_wput")
    /\ UNCHANGED <<display, clients, resp, users, nextUser, vendor, orders, nextOrder, wallet, transactions,
                   commissions, earnings, withdrawals, paystack>>

\* wallet.walletBalance += vendorAmount; wallet.totalEarnings += vendorAmount; kv.set(wallet)
PaymentVerifyWalletWrite(r) ==
    /\ pc[r] = "ver_wput"
    /\ wallet' = [wallet EXCEPT ![loc[r].vendorId] =
                     [loc[r].wallet EXCEPT !.walletBalance = @ + loc[r].vendorAmount,
                                           !.totalEarnings = @ + loc[r].vendorAmount]]
    /\ Goto(r, "tc_set")
    /\ UNCHANGED <<display, clients, resp, users, nextUser, vendor, orders, nextOrder, transactions, commissions,
                   earnings, withdrawals, paystack, loc>>

\* ----------------------------------------------------- POST /vendor/withdraw
\* VendorWallet.handleWithdraw: the checks made before walletAPI.withdraw is called.
\* uiWallet is the wallet the component last loaded (Null: not loaded).
handleWithdrawAccepts(amount, uiWallet) ==
    /\ amount > 0
    /\ ~(uiWallet # Null /\ amount > uiWallet.walletBalance)
    /\ ~(amount < UiMinWithdrawal)

\* The request of user u (a valid access token of u) with the account password;
\* sent by the wallet UI (viaUI) or by any other client of the API.
VendorWithdraw(r, u, amount, password, viaUI) ==
    /\ Idle(r)
    /\ BagCardinality(withdrawals)
         + Cardinality({q \in Reqs : loc[q].kind = "withdraw"}) < MaxWithdrawals
    /\ users[u] # Null
    /\ amount # 0
    /\ password = users[u].password
    /\ viaUI => \E uiWallet \in {Null, wallet[u]} : handleWithdrawAccepts(amount, uiWallet)
    /\ loc' = [loc EXCEPT ![r] = [IdleLoc EXCEPT !.kind = "withdraw", !.user = u,
                     !.vendorId = u, !.amount = amount, !.viaUI = viaUI]]
    /\ Goto(r, "wd_get")
    /\ UNCHANGED <<display, clients, resp, users, nextUser, vendor, orders, nextOrder, wallet, transactions,
                   commissions, earnings, withdrawals, paystack>>

\* wallet = await kv.get(`wallet:${user.id}`);
\* if (!wallet || wallet.walletBalance < amount) return 400 'Insufficient balance'
VendorWithdrawRead(r) ==
    /\ pc[r] = "wd_get"
    /\ IF wallet[loc[r].user] = Null \/ wallet[loc[r].user].walletBalance < loc[r].amount
       THEN Finish(r)
       ELSE /\ loc' = [loc EXCEPT ![r].wallet = wallet[loc[r].user]]
            /\ Goto(r, "wd_transfer")
    /\ UNCHANGED <<display, clients, resp, users, nextUser, vendor, orders, nextOrder, wallet, transactions,
                   commissions, earnings, withdrawals, paystack>>

\* Paystack /transferrecipient and /transfer: either may fail (400, no debit).
VendorWithdrawTransfer(r) ==
    /\ pc[r] = "wd_transfer"
    /\ \/ Finish(r)
       \/ Goto(r, "wd_put") /\ UNCHANGED loc
    /\ UNCHANGED <<display, clients, resp, users, nextUser, vendor, orders, nextOrder, wallet, transactions,
                   commissions, earnings, withdrawals, paystack>>

\* wallet.walletBalance -= amount; wallet.totalWithdrawn += amount; kv.set(wallet)
VendorWithdrawWalletWrite(r) ==
    /\ pc[r] = "wd_put"
    /\ wallet' = [wallet EXCEPT ![loc[r].user] =
                     [loc[r].wallet EXCEPT !.walletBalance = @ - loc[r].amount,
                                           !.totalWithdrawn = @ + loc[r].amount]]
    /\ Goto(r, "wd_rec")
    /\ UNCHANGED <<display, clients, resp, users, nextUser, vendor, orders, nextOrder, transactions, commissions,
                   earnings, withdrawals, paystack, loc>>

\* await kv.set(`withdrawal:${withdrawalId}`, withdrawal)
VendorWithdrawRecord(r) ==
    /\ pc[r] = "wd_rec"
    /\ withdrawals' = withdrawals (+) SetToBag({[vendorId |-> loc[r].user, amount |-> loc[r].amount]})
    /\ Finish(r)
    /\ UNCHANGED <<display, clients, resp, users, nextUser, vendor, orders, nextOrder, wallet, transactions,
                   commissions, earnings, paystack>>

\* -------------------------------------------------------------- POST /signup
Roles == {"vendor", "customer", "admin", "undefined"}

\* supabase.auth.admin.createUser fails for an e-mail already registered.
EmailRegistered(email) == \E u \in UserIds : users[u] # Null /\ users[u].email = email

\* user_metadata: role: role || 'vendor', isVerified: role === 'admin' ? true : false
SignupMetadataRole(role) == IF role = "undefined" THEN "vendor" ELSE role
SignupMetadataVerified(role) == role = "admin"

\* freshVendorProfile
FreshVendorProfile == [status |-> "active", isVerified |-> FALSE,
                       totalOrders |-> 0, revenue |-> 0]

Signup(email, password, role, businessName) ==
    /\ nextUser < MaxUsers
    /\ ~EmailRegistered(email)
    /\ nextUser' = nextUser + 1
    /\ users' = [users EXCEPT ![nextUser + 1] =
                    [email |-> email, password |-> password,
                     role |-> SignupMetadataRole(role),
                     isVerified |-> SignupMetadataVerified(role)]]
    /\ vendor' = IF role = "vendor" /\ businessName
                 THEN [vendor EXCEPT ![nextUser + 1] = FreshVendorProfile]
                 ELSE vendor
    /\ resp' = [op |-> "POST /signup", client |-> 0, status |-> 200, data |-> {}]
    /\ UNCHANGED <<display, clients, orders, nextOrder, wallet, transactions, commissions, earnings,
                   withdrawals, paystack, pc, loc>>

\* ------------------------------------------------------ sessions and headers
\* supabase.auth.getUser(accessToken): the user of the client's session, if
\* the session is one of a user that still exists.
SessionUser(c) ==
    IF clients[c].session # 0 /\ users[clients[c].session] # Null
    THEN users[clients[c].session] ELSE Null

\* Values of the X-Admin-User request header (Null: the header is not sent).
AdminHeader == [role |-> "admin", email |-> AdminEmail]
Headers == {Null, AdminHeader, [role |-> "admin", email |-> "vendor@example.com"],
            [role |-> "vendor", email |-> AdminEmail]}

\* adminUser.role === 'admin' && adminUser.email === 'flourisholuwatimilehin@gmail.com'
HeaderIsAdmin(h) == h # Null /\ h.role = "admin" /\ h.email = AdminEmail

\* The Supabase fallback: 401 without a user, 403 unless user_metadata.role is 'admin'.
TokenAdminStatus(c) ==
    IF SessionUser(c) = Null THEN 401
    ELSE IF SessionUser(c).role # "admin" THEN 403
    ELSE 200

\* The check at the head of GET /admin/vendors, GET /admin/commissions and
\* DELETE /admin/vendors/:vendorId: the header first, then the token.
AdminAccessStatus(c, h) == IF HeaderIsAdmin(h) THEN 200 ELSE TokenAdminStatus(c)

Respond(op, c, status, data) ==
    resp' = [op |-> op, client |-> c, status |-> status, data |-> data]

UserWithEmail(email) == {u \in UserIds : users[u] # Null /\ users[u].email = email}

\* user_metadata: { role: 'admin', businessName: 'FoodHub Admin', isVerified: true }
AdminMetadata(user) == [user EXCEPT !.role = "admin", !.isVerified = TRUE]

\* The admin user is created, or the user that holds the e-mail is made admin.
EnsureAdminUser(email, password) ==
    IF UserWithEmail(email) = {}
    THEN /\ nextUser' = nextUser + 1
         /\ users' = [users EXCEPT ![nextUser + 1] =
                [email |-> email, password |-> password, role |-> "admin", isVerified |-> TRUE]]
    ELSE /\ nextUser' = nextUser
         /\ users' = [u \in UserIds |->
                IF u \in UserWithEmail(email) THEN AdminMetadata(users[u]) ELSE users[u]]

\* ---------------------------------------------------- POST /admin/authenticate
\* On success the landing page stores the answer as localStorage foodhub_admin_user.
AdminAuthenticate(c, email, password) ==
    /\ UserWithEmail(email) # {} \/ nextUser < MaxUsers
    /\ IF email # AdminEmail \/ password # AdminPassword
       THEN /\ Respond("POST /admin/authenticate", c, 401, {})
            /\ UNCHANGED <<users, nextUser, clients>>
       ELSE /\ EnsureAdminUser(email, password)
            /\ clients' = [clients EXCEPT ![c].adminUser = TRUE]
            /\ Respond("POST /admin/authenticate", c, 200, {})
    /\ UNCHANGED <<display, vendor, orders, nextOrder, wallet, transactions, commissions, earnings,
                   withdrawals, paystack, pc, loc>>

\* --------------------------------------------------------- POST /admin/create
AdminCreate(c, email, password) ==
    /\ UserWithEmail(email) # {} \/ nextUser < MaxUsers
    /\ IF email # AdminEmail
       THEN /\ Respond("POST /admin/create", c, 403, {})
            /\ UNCHANGED <<users, nextUser>>
       ELSE /\ EnsureAdminUser(email, password)
            /\ Respond("POST /admin/create", c, 200, {})
    /\ UNCHANGED <<display, vendor, orders, nextOrder, wallet, transactions, commissions, earnings,
                   withdrawals, paystack, pc, loc, clients>>

\* supabase.auth.signInWithPassword in the client: a session of user u.
Login(c, u, password) ==
    /\ users[u] # Null
    /\ password = users[u].password
    /\ clients[c].session # u
    /\ clients' = [clients EXCEPT ![c].session = u]
    /\ UNCHANGED <<display, users, nextUser, vendor, orders, nextOrder, wallet, transactions,
                   commissions, earnings, withdrawals, paystack, pc, loc, resp>>

\* App.handleSignOut: supabase.auth.signOut and localStorage.removeItem.
SignOut(c) ==
    /\ clients[c] # [session |-> 0, adminUser |-> FALSE]
    /\ clients' = [clients EXCEPT ![c] = [session |-> 0, adminUser |-> FALSE]]
    /\ UNCHANGED <<display, users, nextUser, vendor, orders, nextOrder, wallet, transactions,
                   commissions, earnings, withdrawals, paystack, pc, loc, resp>>

\* ------------------------------------------------------- POST /vendor/profile
\* The body of the request: fields the handler spreads into the stored profile.
ProfileData == [status : {"active", "undefined"}, isVerified : BOOLEAN]

\* kv.set(`vendor:${user.id}`, { ...profileData, id: user.id, lastActive })
VendorProfilePost(c, profileData) ==
    /\ IF SessionUser(c) = Null
       THEN /\ Respond("POST /vendor/profile", c, 401, {})
            /\ UNCHANGED vendor
       ELSE /\ vendor' = [vendor EXCEPT ![clients[c].session] =
                   [status |-> profileData.status, isVerified |-> profileData.isVerified,
                    totalOrders |-> 0, revenue |-> 0]]
            /\ Respond("POST /vendor/profile", c, 200, {})
    /\ UNCHANGED <<display, users, nextUser, orders, nextOrder, wallet, transactions, commissions,
                   earnings, withdrawals, paystack, pc, loc, clients>>

\* ------------------------------------------ PUT /admin/vendors/:vendorId/status
VendorStatuses == {"active", "suspended"}
OptionalBooleans == {"true", "false", "undefined"}

\* isVerified: isVerified !== undefined ? isVerified : vendor.isVerified
StatusUpdate(v, status, isVerified) ==
    [v EXCEPT !.status = status,
              !.isVerified = IF isVerified = "undefined" THEN @ ELSE isVerified = "true"]

AdminVendorStatus(c, vendorId, status, isVerified) ==
    /\ IF TokenAdminStatus(c) # 200
       THEN /\ Respond("PUT /admin/vendors/:vendorId/status", c, TokenAdminStatus(c), {})
            /\ UNCHANGED vendor
       ELSE IF vendor[vendorId] = Null
       THEN /\ Respond("PUT /admin/vendors/:vendorId/status", c, 404, {})
            /\ UNCHANGED vendor
       ELSE /\ vendor' = [vendor EXCEPT ![vendorId] = StatusUpdate(@, status, isVerified)]
            /\ Respond("PUT /admin/vendors/:vendorId/status", c, 200, {})
    /\ UNCHANGED <<display, users, nextUser, orders, nextOrder, wallet, transactions, commissions,
                   earnings, withdrawals, paystack, pc, loc, clients>>

\* ---------------------------------------------------------------- GET /vendors
\* vendors.filter(vendor => vendor.status === 'active')
ActiveVendors ==
    {[id |-> v, isVerified |-> vendor[v].isVerified] :
        v \in {u \in UserIds : vendor[u] # Null /\ vendor[u].status = "active"}}

GetVendors(c) ==
    /\ Respond("GET /vendors", c, 200, ActiveVendors)
    /\ UNCHANGED <<display, users, nextUser, vendor, orders, nextOrder, wallet, transactions,
                   commissions, earnings, withdrawals, paystack, pc, loc, clients>>

\* ---------------------------------------------------------- GET /admin/vendors
AdminGetVendors(c, h) ==
    /\ Respond("GET /admin/vendors", c, AdminAccessStatus(c, h), {})
    /\ UNCHANGED <<display, users, nextUser, vendor, orders, nextOrder, wallet, transactions,
                   commissions, earnings, withdrawals, paystack, pc, loc, clients>>

\* ------------------------------------------------------ GET /admin/commissions
AdminGetCommissions(c, h) ==
    /\ Respond("GET /admin/commissions", c, AdminAccessStatus(c, h), {})
    /\ UNCHANGED <<display, users, nextUser, vendor, orders, nextOrder, wallet, transactions,
                   commissions, earnings, withdrawals, paystack, pc, loc, clients>>

\* ---------------------------------------------- DELETE /admin/vendors/:vendorId
\* The vendor's profile, its orders and its Supabase user are deleted.
AdminDeleteVendor(c, h, vendorId) ==
    /\ IF AdminAccessStatus(c, h) # 200
       THEN /\ Respond("DELETE /admin/vendors/:vendorId", c, AdminAccessStatus(c, h), {})
            /\ UNCHANGED <<users, vendor, orders>>
       ELSE /\ vendor' = [vendor EXCEPT ![vendorId] = Null]
            /\ orders' = [o \in OrderIds |->
                   IF orders[o] # Null /\ orders[o].vendorId = vendorId
                   THEN Null ELSE orders[o]]
            /\ users' = [users EXCEPT ![vendorId] = Null]
            /\ Respond("DELETE /admin/vendors/:vendorId", c, 200, {})
    /\ UNCHANGED <<display, nextUser, nextOrder, wallet, transactions, commissions, earnings,
                   withdrawals, paystack, pc, loc, clients>>

\* ------------------------------------------------------------ GET /vendor/orders
\* An order as kv.getByPrefix('order:') returns it: every stored field.
StoredOrder(o) == [id |-> o] @@ orders[o]

\* allOrders.filter(order => order.vendorId === user.id)
VendorOrders(u) ==
    {StoredOrder(o) : o \in {x \in OrderIds : orders[x] # Null /\ orders[x].vendorId = u}}

\* The handler's awaits (getUser, getByPrefix) only read: it answers in one step.
GetVendorOrders(c) ==
    /\ IF SessionUser(c) = Null
       THEN Respond("GET /vendor/orders", c, 401, {})
       ELSE Respond("GET /vendor/orders", c, 200, VendorOrders(clients[c].session))
    /\ UNCHANGED <<users, nextUser, vendor, orders, nextOrder, wallet, transactions,
                   commissions, earnings, withdrawals, paystack, pc, loc, clients>>

\* ------------------------------------------------------------- GET /vendor/stats
\* stats: { totalOrders, revenue, ..., recentOrders: vendorOrders, isVerified, ... };
\* a user without a vendor profile gets a fresh one stored first.
VendorStats(v, u) ==
    [totalOrders |-> v.totalOrders, revenue |-> v.revenue, isVerified |-> v.isVerified,
     recentOrders |-> VendorOrders(u)]

GetVendorStats(c) ==
    /\ IF SessionUser(c) = Null
       THEN /\ Respond("GET /vendor/stats", c, 401, {})
            /\ UNCHANGED vendor
       ELSE LET u == clients[c].session
                v == OrDefault(vendor[u], FreshVendorProfile)
            IN  /\ vendor' = [vendor EXCEPT ![u] = v]
                /\ Respond("GET /vendor/stats", c, 200, {VendorStats(v, u)})
    /\ UNCHANGED <<display, users, nextUser, orders, nextOrder, wallet, transactions,
                   commissions, earnings, withdrawals, paystack, pc, loc, clients>>

\* ------------------------------------------------------------ GET /vendor/wallet
\* .map(txn => ({ id, orderId, amount: txn.vendorAmount, status, createdAt, paymentReference }))
WalletTransaction(txn) ==
    [orderId |-> txn.orderId, amount |-> txn.vendorAmount,
     paymentReference |-> txn.paymentReference]

VendorTransactions(u) ==
    {WalletTransaction(txn) : txn \in {t \in BagToSet(transactions) : t.vendorId = u}}

GetVendorWallet(c) ==
    /\ IF SessionUser(c) = Null
       THEN Respond("GET /vendor/wallet", c, 401, {})
       ELSE Respond("GET /vendor/wallet", c, 200,
                {[wallet |-> OrDefault(wallet[clients[c].session], DefaultWallet),
                  recentTransactions |-> VendorTransactions(clients[c].session)]})
    /\ UNCHANGED <<display, users, nextUser, vendor, orders, nextOrder, wallet, transactions,
                   commissions, earnings, withdrawals, paystack, pc, loc, clients>>

\* The body /payment/verify answers with once the wallet is credited:
\* { success, message, orderId, transactionId, vendorCredited: vendorAmount }
PaymentVerifyResponse(r) ==
    [success |-> TRUE, orderId |-> loc[r].orderId, vendorCredited |-> loc[r].vendorAmount]

\* ------------------------------------------------ PUT /orders/:orderId/status
\* Order['status'] of the orders UI, and one value outside of it.
Statuses == {"pending", "confirmed", "preparing", "ready", "delivered", "cancelled"}
SuppliedStatuses == Statuses \cup {"refunded"}

\* The handler returns c.json(..., code) before its first write.
Answer(r, code) == pc' = [pc EXCEPT ![r] = "st_done"] /\ loc' = [loc EXCEPT ![r].code = code]

\* The request of client c (the orders UI when viaUI); 401 without a user.
PutOrderStatus(r, c, orderId, status, viaUI) ==
    /\ Idle(r)
    /\ pc' = [pc EXCEPT ![r] = IF SessionUser(c) = Null THEN "st_done" ELSE "st_get"]
    /\ loc' = [loc EXCEPT ![r] = [IdleLoc EXCEPT !.kind = "status", !.client = c,
                     !.user = clients[c].session, !.orderId = orderId,
                     !.status = status, !.viaUI = viaUI,
                     !.code = IF SessionUser(c) = Null THEN 401 ELSE 0]]
    /\ UNCHANGED <<display, clients, resp, users, nextUser, vendor, orders, nextOrder, wallet,
                   transactions, commissions, earnings, withdrawals, paystack>>

\* order = await kv.get(`order:${orderId}`); if (!order) return 404
PutOrderStatusRead(r) ==
    /\ pc[r] = "st_get"
    /\ IF orders[loc[r].orderId] = Null
       THEN Answer(r, 404)
       ELSE /\ loc' = [loc EXCEPT ![r].order = orders[loc[r].orderId]]
            /\ Goto(r, "st_put")
    /\ UNCHANGED <<display, clients, resp, users, nextUser, vendor, orders, nextOrder, wallet,
                   transactions, commissions, earnings, withdrawals, paystack>>

\* A handler that refuses to move an order out of 'delivered' or 'cancelled'.
UpdatedOrderTerminalKept(order, status) ==
    IF order.status \in {"delivered", "cancelled"} THEN order ELSE [order EXCEPT !.status = status]

\* updatedOrder = { ...order, status, updatedAt }
UpdatedOrder(order, status) == [order EXCEPT !.status = status]

\* await kv.set(`order:${orderId}`, updatedOrder);
\* if (status === 'delivered') await updateVendorStats(user.id, 'orderCompleted', { amount: order.amount })
PutOrderStatusWrite(r) ==
    /\ pc[r] = "st_put"
    /\ orders' = [orders EXCEPT ![loc[r].orderId] = UpdatedOrder(loc[r].order, loc[r].status)]
    /\ IF loc[r].status = "delivered"
       THEN /\ loc' = [loc EXCEPT ![r].vendorId = loc[r].user,
                                  ![r].vendorAmount = loc[r].order.amount,
                                  ![r].action = "orderCompleted"]
            /\ Goto(r, "uvs_get")
       ELSE Answer(r, 200)
    /\ UNCHANGED <<display, clients, resp, users, nextUser, vendor, nextOrder, wallet,
                   transactions, commissions, earnings, withdrawals, paystack>>

\* setOrders(prev => prev.map(order => order.id === orderId ? { ...order, status } : order))
ShownAfterUpdate(shown, orderId, newStatus) ==
    [o \in OrderIds |-> IF o = orderId /\ shown[o] # "absent" THEN newStatus ELSE shown[o]]

\* The caller takes the answer.  updateOrderStatus: apiCall throws unless the
\* answer is ok; only then the local state is updated.
PutOrderStatusAnswered(r) ==
    /\ pc[r] = "st_done"
    /\ Respond("PUT /orders/:orderId/status", loc[r].client, loc[r].code, {})
    /\ display' = IF loc[r].viaUI /\ loc[r].code = 200
                  THEN [display EXCEPT ![loc[r].client] =
                            ShownAfterUpdate(@, loc[r].orderId, loc[r].status)]
                  ELSE display
    /\ pc' = [pc EXCEPT ![r] = "idle"]
    /\ loc' = [loc EXCEPT ![r] = IdleLoc]
    /\ UNCHANGED <<clients, users, nextUser, vendor, orders, nextOrder, wallet,
                   transactions, commissions, earnings, withdrawals, paystack>>

\* --------------------------------------------------------- OrdersManagement
\* loadOrders: status: order.status || 'pending' of every order of the vendor.
ShownAfterLoad(data) ==
    [o \in OrderIds |-> IF \E x \in data : x.id = o
                        THEN (CHOOSE x \in data : x.id = o).status ELSE "absent"]

loadOrders(c) ==
    /\ GetVendorOrders(c)
    /\ display' = [display EXCEPT ![c] = ShownAfterLoad(resp'.data)]

\* The action buttons rendered for an order shown with `status`.
ButtonsFor(status) ==
    IF status = "pending" THEN {"confirmed", "cancelled"}
    ELSE IF status = "confirmed" THEN {"preparing"}
    ELSE IF status = "preparing" THEN {"ready"}
    ELSE IF status = "ready" THEN {"delivered"}
    ELSE {}

\* A click on a button of order orderId: updateOrderStatus(order.id, newStatus).
updateOrderStatus(r, c, orderId, newStatus) ==
    /\ newStatus \in ButtonsFor(display[c][orderId])
    /\ PutOrderStatus(r, c, orderId, newStatus, TRUE)

\* ------------------------------------------------------------ specification
Step(r) ==
    \/ TrackCommissionRecord(r)
    \/ TrackCommissionRead(r)
    \/ TrackCommissionWrite(r)
    \/ UpdateVendorStatsRead(r)
    \/ UpdateVendorStatsWrite(r)
    \/ PaymentInitializeRead(r)
    \/ PaymentInitializeWrite(r)
    \/ PaymentVerifyRead(r)
    \/ PaymentVerifyTransaction(r)
    \/ PaymentVerifyOrder(r)
    \/ PaymentVerifyWalletRead(r)
    \/ PaymentVerifyWalletWrite(r)
    \/ VendorWithdrawRead(r)
    \/ VendorWithdrawTransfer(r)
    \/ VendorWithdrawWalletWrite(r)
    \/ VendorWithdrawRecord(r)

\* A request takes the lowest free slot (slots are interchangeable).
FreeSlot(r) == Idle(r) /\ \A q \in Reqs : q < r => ~Idle(q)

\* CustomerApp.handleCheckout: the order is placed, then its payment is
\* initialized with the same total (finalTotal).
PlaceOrder(r) == \E v \in UserIds, a \in Amounts : PostOrders(r, v, a)

\* Any client: the payment of an existing order is initialized (again).
InitializePayment(r) ==
    \E o \in OrderIds : orders[o] # Null /\ PaymentInitialize(r, o, orders[o].amount)

\* handleCheckout alone: the payment of an order is initialized once.
CheckoutInitialize(r) ==
    \E o \in OrderIds :
        /\ orders[o] # Null
        /\ orders[o].paymentStatus = "none"
        /\ \A q \in Reqs : ~(loc[q].kind = "init" /\ loc[q].orderId = o)
        /\ PaymentInitialize(r, o, orders[o].amount)

\* paymentAPI.verify(reference), from the Paystack callback or from any client.
VerifyPayment(r) == \E ref \in RefIds : PaymentVerify(r, ref)

\* walletAPI.withdraw from handleWithdraw, or the same request from any client.
RequestWithdrawal(r) ==
    \E u \in UserIds, a \in WithdrawAmounts, ui \in BOOLEAN :
        users[u] # Null /\ VendorWithdraw(r, u, a, users[u].password, ui)

\* A vendor registers through the landing page (role 'vendor', a business name).
VendorRegisters == Signup("vendor@example.com", "secret1", "vendor", TRUE)

Environment == \E ref \in RefIds : CustomerPays(ref)

\* Requests overlap: up to MaxReqs handlers are in flight, interleaved at their
\* awaits.  Payments are initialized by handleCheckout.
Next ==
    \/ \E r \in Reqs : FreeSlot(r) /\ PlaceOrder(r)
    \/ \E r \in Reqs : FreeSlot(r) /\ CheckoutInitialize(r)
    \/ \E r \in Reqs : FreeSlot(r) /\ VerifyPayment(r)
    \/ \E r \in Reqs : FreeSlot(r) /\ RequestWithdrawal(r)
    \/ \E r \in Reqs : Step(r)
    \/ VendorRegisters
    \/ Environment

Spec == Init /\ [][Next]_vars

\* One request at a time: a handler runs to its end before the next request
\* starts.  Any client may send any request.
NextSeq ==
    \/ AllIdle /\ PlaceOrder(1)
    \/ AllIdle /\ InitializePayment(1)
    \/ AllIdle /\ VerifyPayment(1)
    \/ AllIdle /\ RequestWithdrawal(1)
    \/ \E r \in Reqs : Step(r)
    \/ AllIdle /\ VendorRegisters
    \/ AllIdle /\ Environment

SpecSeq == Init /\ [][NextSeq]_vars

\* Accounts, sessions and the admin endpoints; any client may send any
\* request with any header, one request at a time.
NextAccess ==
    \/ AllIdle /\ \E e \in Emails, ro \in Roles, b \in BOOLEAN :
                      Signup(e, "secret1", ro, b)
    \/ AllIdle /\ \E c \in Clients, e \in Emails, p \in Passwords : AdminAuthenticate(c, e, p)
    \/ AllIdle /\ \E c \in Clients, e \in Emails : AdminCreate(c, e, AdminPassword)
    \/ AllIdle /\ \E c \in Clients, u \in UserIds, p \in Passwords : Login(c, u, p)
    \/ AllIdle /\ \E c \in Clients : SignOut(c)
    \/ AllIdle /\ \E c \in Clients, pd \in ProfileData : VendorProfilePost(c, pd)
    \/ AllIdle /\ \E c \in Clients, v \in UserIds, st \in VendorStatuses,
                     iv \in OptionalBooleans : AdminVendorStatus(c, v, st, iv)
    \/ AllIdle /\ \E c \in Clients : GetVendors(c)
    \/ AllIdle /\ \E c \in Clients, h \in Headers : AdminGetVendors(c, h)
    \/ AllIdle /\ \E c \in Clients, h \in Headers : AdminGetCommissions(c, h)
    \/ AllIdle /\ \E c \in Clients, h \in Headers, v \in UserIds : AdminDeleteVendor(c, h, v)

SpecAccess == Init /\ [][NextAccess]_vars

\* vendor.revenue of the caller's vendor profile (0 without one).
CallerRevenue(c) ==
    IF SessionUser(c) = Null \/ vendor[clients[c].session] = Null THEN 0
    ELSE vendor[clients[c].session].revenue

\* The steps of the handlers of orders, payments and order statuses.
VendorStep(r) ==
    \/ TrackCommissionRecord(r)
    \/ TrackCommissionRead(r)
    \/ TrackCommissionWrite(r)
    \/ UpdateVendorStatsRead(r)
    \/ UpdateVendorStatsWrite(r)
    \/ PaymentInitializeRead(r)
    \/ PaymentInitializeWrite(r)
    \/ PaymentVerifyRead(r)
    \/ PaymentVerifyTransaction(r)
    \/ PaymentVerifyOrder(r)
    \/ PaymentVerifyWalletRead(r)
    \/ PaymentVerifyWalletWrite(r)
    \/ PutOrderStatusRead(r)
    \/ PutOrderStatusWrite(r)
    \/ PutOrderStatusAnswered(r)

\* Orders, payments and the vendor-facing endpoints, one request at a time;
\* any client may ask for any status of any order id.
NextVendor ==
    \/ AllIdle /\ VendorRegisters
    \/ AllIdle /\ \E c \in Clients, u \in UserIds, p \in Passwords : Login(c, u, p)
    \/ AllIdle /\ PlaceOrder(1)
    \/ AllIdle /\ CheckoutInitialize(1)
    \/ AllIdle /\ Environment
    \/ AllIdle /\ VerifyPayment(1)
    \/ AllIdle /\ \E c \in Clients : GetVendorOrders(c) /\ UNCHANGED display
    \/ AllIdle /\ \E c \in Clients : GetVendorStats(c)
    \/ AllIdle /\ \E c \in Clients : GetVendorWallet(c)
    \/ AllIdle /\ \E c \in Clients, o \in OrderIds, st \in SuppliedStatuses :
                      /\ st = "delivered" => CallerRevenue(c) < RevenueCap
                      /\ PutOrderStatus(1, c, o, st, FALSE)
    \/ VendorStep(1)

SpecVendor == Init /\ [][NextVendor]_vars

\* The steps of the handlers of POST /orders and PUT /orders/:orderId/status.
StatusStep(r) ==
    \/ TrackCommissionRecord(r)
    \/ TrackCommissionRead(r)
    \/ TrackCommissionWrite(r)
    \/ UpdateVendorStatsRead(r)
    \/ UpdateVendorStatsWrite(r)
    \/ PutOrderStatusRead(r)
    \/ PutOrderStatusWrite(r)
    \/ PutOrderStatusAnswered(r)

\* Orders and their statuses, one request at a time; any client, signed in or
\* not, may ask for any status of any order id.
NextStatus ==
    \/ AllIdle /\ VendorRegisters
    \/ AllIdle /\ \E c \in Clients, u \in UserIds, p \in Passwords : Login(c, u, p)
    \/ AllIdle /\ PlaceOrder(1)
    \/ AllIdle /\ \E c \in Clients, o \in OrderIds, st \in SuppliedStatuses :
                      /\ st = "delivered" => CallerRevenue(c) < RevenueCap
                      /\ PutOrderStatus(1, c, o, st, FALSE)
    \/ StatusStep(1)

SpecStatus == Init /\ [][NextStatus]_vars

\* The steps of the handlers the orders UI depends on.
UiStep(r) ==
    \/ TrackCommissionRecord(r)
    \/ TrackCommissionRead(r)
    \/ TrackCommissionWrite(r)
    \/ UpdateVendorStatsRead(r)
    \/ UpdateVendorStatsWrite(r)
    \/ PutOrderStatusRead(r)
    \/ PutOrderStatusWrite(r)
    \/ PutOrderStatusAnswered(r)

\* The vendor's orders UI: orders are placed, the vendor loads the list and
\* clicks the buttons shown; statuses change through these buttons only.  A
\* click does not wait for the answer of the click before it.
NextUI ==
    \/ VendorRegisters
    \/ \E c \in Clients, u \in UserIds, p \in Passwords : Login(c, u, p)
    \/ \E r \in Reqs : FreeSlot(r) /\ PlaceOrder(r)
    \/ \E c \in Clients : loadOrders(c)
    \/ \E r \in Reqs, c \in Clients, o \in OrderIds, st \in Statuses :
           FreeSlot(r) /\ updateOrderStatus(r, c, o, st)
    \/ \E r \in Reqs : UiStep(r)

SpecUI == Init /\ [][NextUI]_vars

\* ------------------------------------------------------------------ sums
RECURSIVE SumSet(_, _)
\* The sum of f[x] over the finite set S.
SumSet(S, f) ==
    IF S = {} THEN 0
    ELSE LET x == CHOOSE y \in S : TRUE IN f[x] + SumSet(S \ {x}, f)

\* The vendor amounts of the transaction records of vendor u.
CreditedTo(u) ==
    LET S == {t \in BagToSet(transactions) : t.vendorId = u} IN
    SumSet(S, [t \in S |-> CopiesIn(t, transactions) * t.vendorAmount])

\* The amounts of the withdrawal records of vendor u.
WithdrawnBy(u) ==
    LET S == {w \in BagToSet(withdrawals) : w.vendorId = u} IN
    SumSet(S, [w \in S |-> CopiesIn(w, withdrawals) * w.amount])

\* The number of transaction records of order o.
TransactionsOf(o) ==
    LET S == {t \in BagToSet(transactions) : t.orderId = o} IN
    SumSet(S, [t \in S |-> CopiesIn(t, transactions)])

\* c is 0.04 * T rounded to the nearest integer, halves up.
IsRoundedCommission(T, c) ==
    /\ 100 * c - 50 <= CommissionPercent * T
    /\ CommissionPercent * T < 100 * c + 50

\* The handler of slot r is a /payment/verify that has written the vendor's wallet.
HasCredited(r) ==
    /\ loc[r].kind = "verify"
    /\ pc[r] \in {"tc_set", "tc_get", "tc_put", "uvs_get", "uvs_put"}

PaidOrders == {o \in OrderIds : orders[o] # Null /\ orders[o].paymentStatus = "completed"}

\* What the customer paid for order o, in naira, as Paystack holds it.
AmountPaid(o) == paystack[orders[o].paymentReference].amount \div KoboPerNaira

\* ------------------------------------------------------------------ claims

\* C1: when /payment/verify processes a successful Paystack transaction of T
\* naira for an order not yet marked paid, the wallet write adds the same
\* amount to walletBalance and to totalEarnings, that amount is T - c with
\* c = round(0.04 * T), and c is the commission the handler goes on to track:
\* commission + vendor credit = T.
C1_VerifySplitsPayment ==
    [][\A r \in Reqs :
        (pc[r] = "ver_wput" /\ pc'[r] = "tc_set") =>
            LET kobo == paystack[loc[r].ref].amount
                v == loc[r].order.vendorId
                before == OrDefault(wallet[v], DefaultWallet)
                credit == wallet'[v].walletBalance - before.walletBalance
            IN  \E T \in 0..kobo :
                    /\ T * KoboPerNaira = kobo
                    /\ wallet'[v].totalEarnings - before.totalEarnings = credit
                    /\ IsRoundedCommission(T, T - credit)
                    /\ loc'[r].commission = T - credit
                    /\ loc'[r].commission + credit = T
      ]_vars

\* C1 witness: a payment of 5240 naira (0.04 * 5240 = 209.6) has been
\* processed: the vendor's wallet holds 5030 and 210 is about to be tracked.
C1_Witness ==
    \E r \in Reqs :
        /\ loc[r].kind = "verify" /\ pc[r] = "tc_set"
        /\ loc[r].amount = 5240 /\ loc[r].commission = 210
        /\ wallet[loc[r].vendorId].walletBalance = 5030
        /\ wallet[loc[r].vendorId].totalEarnings = 5030

\* C2: over any sequence of /payment/initialize and /payment/verify requests,
\* handled one after the other, an order gets at most one transaction record
\* (so its vendor is credited for it at most once).
C2_NoDoubleProcessing == \A o \in OrderIds : TransactionsOf(o) <= 1

\* C3: of two /payment/verify requests for the same reference that are in
\* flight together, at most one gets to credit the vendor's wallet (and to
\* track the commission).
C3_ConcurrentVerifyCreditsOnce ==
    \A r1, r2 \in Reqs :
        (r1 # r2 /\ loc[r1].ref = loc[r2].ref) => ~(HasCredited(r1) /\ HasCredited(r2))

\* C4: whenever no request is in flight, platform_earnings.totalEarnings is
\* the sum of round(0.04 * amount paid) over the orders whose payment was
\* verified (nothing for unpaid orders), and platform earnings plus the
\* vendors' wallet earnings equal the total of the verified payments.
C4_CommissionOncePerPaidOrder ==
    AllIdle =>
        LET total == OrDefault(earnings, DefaultEarnings).totalEarnings
            vendorsEarned == SumSet(UserIds,
                [u \in UserIds |-> OrDefault(wallet[u], DefaultWallet).totalEarnings])
        IN  /\ total = SumSet(PaidOrders,
                        [o \in PaidOrders |-> calculateCommission(AmountPaid(o))])
            /\ total + vendorsEarned = SumSet(PaidOrders, [o \in PaidOrders |-> AmountPaid(o)])

C6_MinimumWithdrawal ==
    /\ \A w \in BagToSet(withdrawals) : w.amount >= DocMinWithdrawal
    /\ \A r \in Reqs : pc[r] = "wd_rec" => loc[r].amount >= DocMinWithdrawal

\* --------------------------------------------------------------- access claims
BecomesVerified(v) ==
    /\ vendor'[v] # Null
    /\ vendor'[v].isVerified
    /\ vendor[v] = Null \/ ~vendor[v].isVerified

\* The requester has proven to be the administrator: it has authenticated
\* with the admin credentials, or its session is one of a user of role admin.
ProvenAdmin(c) ==
    \/ clients[c].adminUser
    \/ SessionUser(c) # Null /\ SessionUser(c).role = "admin"

\* C7: a vendor's isVerified is false when the vendor registers and becomes
\* true only through the admin vendor-status endpoint, PUT
\* /admin/vendors/:vendorId/status, answered with success.
C7_VerifiedOnlyByAdminEndpoint ==
    [][\A v \in UserIds : BecomesVerified(v) =>
            /\ resp'.op = "PUT /admin/vendors/:vendorId/status"
            /\ resp'.status = 200]_vars

\* C8: every vendor in an answer of GET /vendors, the list customers browse,
\* is a verified vendor.
C8_GetVendorsOnlyVerified ==
    resp.op = "GET /vendors" => \A x \in resp.data : x.isVerified

\* C9: an admin endpoint answers with success only if the requester has
\* proven to be the administrator, whatever header the request carries.
C9_AdminEndpointsOnlyForProvenAdmin ==
    [][\A c \in Clients, h \in Headers :
          (\/ \E v \in UserIds : AdminDeleteVendor(c, h, v)
           \/ AdminGetVendors(c, h)
           \/ AdminGetCommissions(c, h))
          => /\ resp'.status = 200 => ProvenAdmin(c)
             /\ resp'.status # 200 => /\ resp'.status \in {401, 403}
                                      /\ UNCHANGED <<users, vendor, orders>>]_vars

\* C10: no account created by POST /signup has role admin or isVerified true,
\* and a user gets role admin only through POST /admin/authenticate or POST
\* /admin/create, and only with the designated admin e-mail.
C10_SignupNeverGrantsAdmin ==
    [][\A u \in UserIds :
          (/\ users'[u] # Null
           /\ users'[u].role = "admin" \/ users'[u].isVerified
           /\ users[u] = Null \/ (users[u].role # "admin" /\ ~users[u].isVerified))
          => /\ resp'.op \in {"POST /admin/authenticate", "POST /admin/create"}
             /\ users'[u].email = AdminEmail]_vars

\* ------------------------------------------------------ vendor-facing answers
\* The fields that hold the platform's commission on an order, or its rate.
CommissionFields == {"platformCommission", "commissionRate", "commissionAmount"}

HidesCommission(record) == DOMAIN record \cap CommissionFields = {}

\* C11: no answer of a vendor-facing endpoint (GET /vendor/orders, GET
\* /vendor/stats, GET /vendor/wallet, POST /payment/verify) holds the
\* commission amount or the commission rate of an order, in any of its records.
C11_CommissionHiddenFromVendors ==
    /\ resp.op = "GET /vendor/orders" => \A order \in resp.data : HidesCommission(order)
    /\ resp.op = "GET /vendor/stats" =>
           \A stats \in resp.data :
               /\ HidesCommission(stats)
               /\ \A order \in stats.recentOrders : HidesCommission(order)
    /\ resp.op = "GET /vendor/wallet" =>
           \A body \in resp.data :
               /\ HidesCommission(body)
               /\ HidesCommission(body.wallet)
               /\ \A txn \in body.recentTransactions : HidesCommission(txn)
    /\ \A r \in Reqs : HasCredited(r) => HidesCommission(PaymentVerifyResponse(r))

\* ------------------------------------------------------------ order statuses
\* The status changes the claim lists.
LinearTransitions ==
    {<<"pending", "confirmed">>, <<"pending", "cancelled">>, <<"confirmed", "preparing">>,
     <<"preparing", "ready">>, <<"ready", "delivered">>}

\* The click of this step: a request of the orders UI enters slot r.
Clicked(r) == pc[r] = "idle" /\ pc'[r] # "idle" /\ loc'[r].kind = "status" /\ loc'[r].viaUI

\* C12: in the vendor orders UI every click asks for one of pending->confirmed,
\* pending->cancelled, confirmed->preparing, preparing->ready, ready->delivered
\* from the status shown; an order driven by these buttons only changes status
\* along these steps (never skipping, never going back, never out of delivered
\* or cancelled); and the status shown changes only to a status the server has
\* accepted for the order.
C12_UiStatusTransitions ==
    [][/\ \A r \in Reqs : Clicked(r) =>
            <<display[loc'[r].client][loc'[r].orderId], loc'[r].status>> \in LinearTransitions
       /\ \A o \in OrderIds :
            (orders[o] # Null /\ orders'[o] # Null /\ orders'[o].status # orders[o].status)
                => <<orders[o].status, orders'[o].status>> \in LinearTransitions
       /\ \A c \in Clients, o \in OrderIds :
            (display'[c][o] # display[c][o] /\ display'[c][o] # "absent")
                => \/ orders[o] # Null /\ orders[o].status = display'[c][o]
                   \/ \E r \in Reqs : /\ pc[r] = "st_done" /\ loc[r].code = 200
                                      /\ loc[r].orderId = o /\ loc[r].status = display'[c][o]
      ]_vars

\* C13: the server validates no status transition.  A PUT
\* /orders/:orderId/status of an authenticated caller for an existing order is
\* never refused and stores the supplied status whatever the order's status is
\* (also out of 'delivered' or 'cancelled'), answering 200 with the order
\* holding that status; for an order that does not exist it answers 404 and
\* stores nothing.
C13_ServerSetsAnyStatus ==
    [][\A r \in Reqs :
        LET o == loc[r].orderId IN
        /\ (pc[r] = "st_get" /\ pc'[r] # "st_get" /\ orders[o] # Null) => pc'[r] = "st_put"
        /\ (pc[r] = "st_put" /\ pc'[r] # "st_put") =>
              /\ orders'[o].status = loc[r].status
              /\ pc'[r] \in {"st_done", "uvs_get"}
              /\ pc'[r] = "st_done" => loc'[r].code = 200
        /\ (pc[r] = "st_get" /\ pc'[r] # "st_get" /\ orders[o] = Null) =>
              /\ pc'[r] = "st_done" /\ loc'[r].code = 404
              /\ UNCHANGED <<orders, vendor, wallet, transactions, commissions, earnings>>
        /\ (pc[r] = "st_done" /\ pc'[r] = "idle" /\ loc[r].code = 200) =>
              /\ loc[r].user # 0
              /\ orders[o] # Null /\ orders[o].status = loc[r].status
      ]_vars

\* C13 witness: an order that was 'delivered' or 'cancelled' has been set back
\* to 'pending' and the request is answered 200.
C13_Witness ==
    \E r \in Reqs :
        /\ pc[r] = "st_done" /\ loc[r].code = 200
        /\ loc[r].order # Null /\ loc[r].order.status \in {"delivered", "cancelled"}
        /\ loc[r].status = "pending"
        /\ orders[loc[r].orderId].status = "pending"

====
